---- MODULE Spec2Model ----
(***************************************************************************)
(* The real-time room-messaging broker of the chat application.            *)
(*                                                                         *)
(* Part I   models the standalone `ws` server (server/websocket/server.ts, *)
(*          class WebSocketChatServer): the client registry, the room      *)
(*          directory, the frame dispatcher with its rate limiter, the     *)
(*          heartbeat and the cleanup sweeps.                              *)
(*          Specifications: Spec (three peers, no time passing), TSpec     *)
(*          (two peers, the clock running), LSpec (fair sweeps), MSpec     *)
(*          (the limiter's own bookkeeping), OSpec (frames in flight),     *)
(*          HSpec (the sweeps on schedule), GSpec (the dispatcher's log).  *)
(* Part II  models the HTTP-route implementation (app/api/ws/route.ts):    *)
(*          connections, roomConnections, the userTyping timers.           *)
(*                                                   Specification: RSpec  *)
(* Part III models the browser client (lib/websocket/client.ts, class      *)
(*          WebSocketClient): connect, disconnect, the reconnect backoff   *)
(*          and the connection timeout.              Specification: CSpec  *)
(*                                                                         *)
(* Every handler is one atomic action (JavaScript runs each callback to    *)
(* completion).  `out` holds what the last handler wrote to each socket,   *)
(* `last` names the last handler and its inputs.                           *)
(***************************************************************************)
EXTENDS Integers, Sequences, FiniteSets, TLC

\* ------------------------------------------------------------------ bounds
MaxConns == 3
MaxTimedConns == 2
MaxLiveConns == 2
MaxRouteConns == 2
MaxTicks == 1
MaxMeteredConns == 2
MaxShortTicks == 2
MaxStreamConns == 2
MaxSent == 3
MaxBeatConns == 2
MaxClockSteps == 30
MaxLoggedConns == 2
MaxTalkers == 1
MaxLoggedPings == 2
MaxSockets == 3
MaxClientSteps == 3

\* ------------------------------------------------------- program constants
ClientTimeoutMs == 60000
RoomTimeoutMs == 60 * 60 * 1000
RateMaxAttempts == 10
RateWindowMs == 60 * 1000
MaxMessageLength == 1000
HeartbeatIntervalMs == 30000
CleanupIntervalMs == 5 * 60 * 1000
ConnectTimeoutMs == 10000
ReconnectIntervalMs == 1000
MaxReconnectAttempts == 5

\* --------------------------------------------------------- input universes
Conn == 1..MaxConns
RoomIds == {"r1", "r2"}
Undef == "undefined"
NoConn == 0
\* the WebSocket objects of the client, and `null`
Sock == 1..MaxSockets
NoSock == 0
NoHandle == 0
\* close codes of a close event: normal closure, abnormal closure
CloseCodes == {1000, 1006}
\* client-asserted identities (userId, username)
Identities == {<<"u1", "ann">>, <<"u2", "bob">>}
FrameTypes == {"join_room", "message", "typing", "ping"}
\* elapsed times the clock may jump by: past the client timeout only, and past
\* the room timeout too
TickSteps == {ClientTimeoutMs + 30000, RoomTimeoutMs + 30000}

\* A string content, by what the code inspects of it: its length and the
\* length of its trimmed form.  lead/trail count the whitespace around a
\* body that neither starts nor ends with whitespace.
Str(lead, body, trail) == [lead |-> lead, body |-> body, trail |-> trail]
StrLen(s) == s.lead + s.body + s.trail
Trim(s) == Str(0, s.body, 0)
NoContent == Str(0, 0, 0)
Contents ==
    { NoContent,                 \* "" or a missing data.content
      Str(2, 0, 0),              \* "  "
      Str(0, 1000, 0),           \* 1000 characters
      Str(0, 1001, 0) }          \* 1001 characters

VARIABLES
    now,        \* Date.now()
    ws,         \* readyState of each connection's socket
    clients,    \* WebSocketChatServer.clients : Map<clientId, ClientConnection>
    rooms,      \* WebSocketChatServer.rooms   : Map<roomId, Room>
    silent,     \* connections whose peer has stopped answering
    ticks,      \* number of clock jumps so far
    out,        \* events written to each socket by the last handler
    last,       \* the last handler and the connection (or typing key) it ran for
    connections,      \* route.ts connections     : Map<connectionId, {...}>
    roomConnections,  \* route.ts roomConnections : Map<roomId, Set<connectionId>>
    userTyping,       \* route.ts userTyping      : Map<typingKey, {..., timeout}>
    timers,           \* pending setTimeout handles of the typing auto-stop
    store,            \* route.ts rooms           : Map<roomId, room record>
    attempts,   \* RateLimiter.attempts : Map<identifier, timestamp[]>
    sent,       \* number of message frames each peer has put on its socket
    inbound,    \* frames of each peer that have arrived and are not yet handled
    delivered,  \* the message events written to each socket, oldest first
    dispatched, \* the times at which frames of each limiter key reached a handler
    client,     \* WebSocketClient: ws, reconnectAttempts, reconnectTimer, isManualDisconnect
    sockets,    \* the WebSocket objects the client has created, by creation number
    timeouts,   \* the client's pending setTimeout callbacks
    handles,    \* number of setTimeout handles the client has been issued
    halted      \* disconnect() was called and connect() has not been called since

serverVars == <<now, ws, clients, rooms, silent, ticks>>
routeVars == <<connections, roomConnections, userTyping, timers, store>>
streamVars == <<sent, inbound, delivered>>
clientVars == <<client, sockets, timeouts, handles, halted>>
auxVars == <<attempts, sent, inbound, delivered, dispatched, clientVars>>
vars == <<now, ws, clients, rooms, silent, ticks, out, last,
          connections, roomConnections, userTyping, timers, store,
          attempts, sent, inbound, delivered, dispatched,
          client, sockets, timeouts, handles, halted>>

\* --------------------------------------------------------------- helpers
MapPut(f, k, v) == [x \in (DOMAIN f) \cup {k} |-> IF x = k THEN v ELSE f[x]]
MapDel(f, k) == [x \in (DOMAIN f) \ {k} |-> f[x]]
EmptyMap == [x \in {} |-> 0]

\* One outbound event.  Every event carries every field, unused ones at a
\* default, so that events are always comparable.
Ev(type, room, user, name, content, typing, parts) ==
    [type |-> type, room |-> room, user |-> user, name |-> name,
     content |-> content, typing |-> typing, parts |-> parts]
CountType(q, type) == Len(SelectSeq(q, LAMBDA e : e.type = type))
NoOut == [c \in Conn |-> <<>>]

NoIdent == <<Undef, Undef>>
NoKey == <<Undef, Undef>>
LastK(op, conn, key) == [op |-> op, conn |-> conn, key |-> key]
Last(op, conn) == LastK(op, conn, NoKey)

\* The server's mutable state as one value, so that the handlers compose.
\* `bad` are the sockets whose send() throws while the current event is
\* handled.
Sv == [clients |-> clients, rooms |-> rooms, ws |-> ws, out |-> NoOut,
       bad |-> {}]

\* ------------------------------------------------------------ sendToClient
\* (variant: a send that cannot be made removes the connection from the
\* registry and from every membership set)
SendToClientEvicting(sv, c, ev) ==
    IF c \notin DOMAIN sv.clients THEN sv
    ELSE IF sv.ws[c] # "OPEN" \/ c \in sv.bad
         THEN [sv EXCEPT !.clients = MapDel(@, c),
                         !.rooms = [r \in DOMAIN @ |->
                                       [@[r] EXCEPT !.clients = @ \ {c}]]]
         ELSE [sv EXCEPT !.out[c] = Append(@, ev)]

\* A send that throws is caught and logged: nothing is written.
SendToClient(sv, c, ev) ==
    IF c \notin DOMAIN sv.clients \/ sv.ws[c] # "OPEN" THEN sv
    ELSE IF c \in sv.bad THEN sv
    ELSE [sv EXCEPT !.out[c] = Append(@, ev)]

\* ---------------------------------------------------------- broadcastToRoom
RECURSIVE SendEach(_, _, _)
SendEach(sv, targets, ev) ==
    IF targets = {} THEN sv
    ELSE LET c == CHOOSE x \in targets : TRUE
         IN  SendEach(SendToClient(sv, c, ev), targets \ {c}, ev)

BroadcastToRoom(sv, r, ev, exclude) ==
    IF r \notin DOMAIN sv.rooms THEN sv
    ELSE SendEach(sv, sv.rooms[r].clients \ {exclude}, ev)

\* ------------------------------------------------------ getRoomParticipants
GetRoomParticipants(sv, r) ==
    IF r \notin DOMAIN sv.rooms THEN EmptyMap
    ELSE LET listed == { c \in sv.rooms[r].clients :
                           /\ c \in DOMAIN sv.clients
                           /\ sv.clients[c].userId # Undef
                           /\ sv.clients[c].username # Undef }
         IN  [c \in listed |-> <<sv.clients[c].userId, sv.clients[c].username>>]

\* (variant: a room that has become empty is kept)
LeaveRoomKeepsEmpty(sv, c, r) ==
    IF c \notin DOMAIN sv.clients \/ r \notin DOMAIN sv.rooms THEN sv
    ELSE LET cl == sv.clients[c]
             s1 == [sv EXCEPT !.rooms[r].clients = @ \ {c}]
             s2 == IF cl.userId # Undef /\ cl.username # Undef
                   THEN BroadcastToRoom(s1, r,
                            Ev("user_left", r, cl.userId, cl.username,
                               NoContent, FALSE, EmptyMap), c)
                   ELSE s1
         IN  [s2 EXCEPT !.clients[c].roomId = Undef]

\* (variant: the connection is not taken out of the room's set)
LeaveRoomKeepsListing(sv, c, r) ==
    IF c \notin DOMAIN sv.clients \/ r \notin DOMAIN sv.rooms THEN sv
    ELSE LET cl == sv.clients[c]
             s2 == IF cl.userId # Undef /\ cl.username # Undef
                   THEN BroadcastToRoom(sv, r,
                            Ev("user_left", r, cl.userId, cl.username,
                               NoContent, FALSE, EmptyMap), c)
                   ELSE sv
         IN  [s2 EXCEPT !.clients[c].roomId = Undef]

\* ------------------------------------------------------------------ leaveRoom
LeaveRoom(sv, c, r) ==
    IF c \notin DOMAIN sv.clients \/ r \notin DOMAIN sv.rooms THEN sv
    ELSE LET cl == sv.clients[c]
             s1 == [sv EXCEPT !.rooms[r].clients = @ \ {c}]
             s2 == IF cl.userId # Undef /\ cl.username # Undef
                   THEN BroadcastToRoom(s1, r,
                            Ev("user_left", r, cl.userId, cl.username,
                               NoContent, FALSE, EmptyMap), c)
                   ELSE s1
             s3 == IF s2.rooms[r].clients = {}
                   THEN [s2 EXCEPT !.rooms = MapDel(@, r)]
                   ELSE s2
         IN  [s3 EXCEPT !.clients[c].roomId = Undef]

\* (variant: a connection that is no longer registered is announced as
\* leaving all the same)
HandleDisconnectAnnouncesAgain(sv, c) ==
    IF c \notin DOMAIN sv.clients
    THEN SendEach(sv, DOMAIN sv.clients,
             Ev("user_left", Undef, Undef, Undef, NoContent, FALSE, EmptyMap))
    ELSE LET s1 == IF sv.clients[c].roomId # Undef
                   THEN LeaveRoom(sv, c, sv.clients[c].roomId)
                   ELSE sv
         IN  [s1 EXCEPT !.clients = MapDel(@, c)]

\* ------------------------------------------------------------ handleDisconnect
HandleDisconnect(sv, c) ==
    IF c \notin DOMAIN sv.clients THEN sv
    ELSE LET s1 == IF sv.clients[c].roomId # Undef
                   THEN LeaveRoom(sv, c, sv.clients[c].roomId)
                   ELSE sv
         IN  [s1 EXCEPT !.clients = MapDel(@, c)]

\* --------------------------------------------------------------- handleJoinRoom
\* (variant: the prior room is not left)
JoinStays(sv, c) == sv

\* The state between the implicit leave and the join proper.
JoinLeft(sv, c) ==
    IF sv.clients[c].roomId # Undef
    THEN LeaveRoom(sv, c, sv.clients[c].roomId)
    ELSE sv

\* (variant: the joiner is told of its own arrival like everybody else)
HandleJoinRoomEcho(sv, c, room, ident, t) ==
    IF c \notin DOMAIN sv.clients \/ room = Undef \/ ident[1] = Undef \/ ident[2] = Undef
    THEN sv
    ELSE LET s1 == JoinLeft(sv, c)
             s2 == [s1 EXCEPT !.clients[c].userId = ident[1],
                              !.clients[c].username = ident[2],
                              !.clients[c].roomId = room]
             s3 == IF room \notin DOMAIN s2.rooms
                   THEN [s2 EXCEPT !.rooms = MapPut(@, room,
                            [clients |-> {}, lastActivity |-> t])]
                   ELSE s2
             s4 == [s3 EXCEPT !.rooms[room].clients = @ \cup {c},
                              !.rooms[room].lastActivity = t]
             s5 == BroadcastToRoom(s4, room,
                       Ev("user_joined", room, ident[1], ident[2],
                          NoContent, FALSE, EmptyMap), NoConn)
         IN  SendToClient(s5, c,
                 Ev("room_joined", room, Undef, Undef, NoContent, FALSE,
                    GetRoomParticipants(s5, room)))

HandleJoinRoom(sv, c, room, ident, t) ==
    IF c \notin DOMAIN sv.clients \/ room = Undef \/ ident[1] = Undef \/ ident[2] = Undef
    THEN sv
    ELSE LET s1 == JoinLeft(sv, c)
             s2 == [s1 EXCEPT !.clients[c].userId = ident[1],
                              !.clients[c].username = ident[2],
                              !.clients[c].roomId = room]
             s3 == IF room \notin DOMAIN s2.rooms
                   THEN [s2 EXCEPT !.rooms = MapPut(@, room,
                            [clients |-> {}, lastActivity |-> t])]
                   ELSE s2
             s4 == [s3 EXCEPT !.rooms[room].clients = @ \cup {c},
                              !.rooms[room].lastActivity = t]
             s5 == BroadcastToRoom(s4, room,
                       Ev("user_joined", room, ident[1], ident[2],
                          NoContent, FALSE, EmptyMap), c)
         IN  SendToClient(s5, c,
                 Ev("room_joined", room, Undef, Undef, NoContent, FALSE,
                    GetRoomParticipants(s5, room)))

\* -------------------------------------------------------------- handleChatMessage
\* (variant: the relay leaves out the sender, as the typing relay does)
HandleChatMessageNoEcho(sv, c, content, t) ==
    IF \/ c \notin DOMAIN sv.clients
       \/ sv.clients[c].roomId = Undef
       \/ StrLen(content) = 0
    THEN sv
    ELSE LET cl == sv.clients[c]
             r == cl.roomId
         IN  IF r \notin DOMAIN sv.rooms THEN sv
             ELSE BroadcastToRoom([sv EXCEPT !.rooms[r].lastActivity = t], r,
                      Ev("message", r, cl.userId, cl.username, content,
                         FALSE, EmptyMap), c)

\* (variant: a sender outside every room is told so)
HandleChatMessageNotInRoom(sv, c, content, t) ==
    IF c \in DOMAIN sv.clients /\ sv.clients[c].roomId = Undef
    THEN SendToClient(sv, c,
             Ev("error", Undef, Undef, "Not in a room", NoContent, FALSE,
                EmptyMap))
    ELSE IF c \notin DOMAIN sv.clients \/ StrLen(content) = 0 THEN sv
    ELSE LET cl == sv.clients[c]
             r == cl.roomId
         IN  IF r \notin DOMAIN sv.rooms THEN sv
             ELSE BroadcastToRoom([sv EXCEPT !.rooms[r].lastActivity = t], r,
                      Ev("message", r, cl.userId, cl.username, content,
                         FALSE, EmptyMap), NoConn)

\* (variant: relaying a message does not touch the room's lastActivity)
HandleChatMessageNoTouch(sv, c, content, t) ==
    IF \/ c \notin DOMAIN sv.clients
       \/ sv.clients[c].roomId = Undef
       \/ StrLen(content) = 0
    THEN sv
    ELSE LET cl == sv.clients[c]
             r == cl.roomId
         IN  IF r \notin DOMAIN sv.rooms THEN sv
             ELSE BroadcastToRoom(sv, r,
                      Ev("message", r, cl.userId, cl.username, content,
                         FALSE, EmptyMap), NoConn)

HandleChatMessage(sv, c, content, t) ==
    IF \/ c \notin DOMAIN sv.clients
       \/ sv.clients[c].roomId = Undef
       \/ StrLen(content) = 0
    THEN sv
    ELSE LET cl == sv.clients[c]
             r == cl.roomId
         IN  IF r \notin DOMAIN sv.rooms THEN sv
             ELSE BroadcastToRoom([sv EXCEPT !.rooms[r].lastActivity = t], r,
                      Ev("message", r, cl.userId, cl.username, content,
                         FALSE, EmptyMap), NoConn)

\* ------------------------------------------------------------------ handleTyping
\* (variant: only typing:false is relayed)
HandleTypingStopsOnly(sv, c, typing) ==
    IF \/ c \notin DOMAIN sv.clients
       \/ sv.clients[c].roomId \notin DOMAIN sv.rooms
       \/ typing
    THEN sv
    ELSE BroadcastToRoom(sv, sv.clients[c].roomId,
             Ev("typing", sv.clients[c].roomId, sv.clients[c].userId,
                sv.clients[c].username, NoContent, FALSE, EmptyMap), c)

HandleTyping(sv, c, typing) ==
    IF c \notin DOMAIN sv.clients \/ sv.clients[c].roomId = Undef THEN sv
    ELSE LET cl == sv.clients[c]
             r == cl.roomId
         IN  IF r \notin DOMAIN sv.rooms THEN sv
             ELSE BroadcastToRoom(sv, r,
                      Ev("typing", r, cl.userId, cl.username, NoContent,
                         typing, EmptyMap), c)

\* -------------------------------------------------------------------- handlePing
HandlePing(sv, c, t) ==
    IF c \notin DOMAIN sv.clients THEN sv
    ELSE SendToClient([sv EXCEPT !.clients[c].lastPing = t,
                                 !.clients[c].isAlive = TRUE], c,
             Ev("pong", Undef, Undef, Undef, NoContent, FALSE, EmptyMap))

\* --------------------------------------------------------- RateLimiter.isAllowed
RateKey(c, type) == <<c, type>>
ValidAttempts(att, key, t) == SelectSeq(att[key], LAMBDA ts : t - ts < RateWindowMs)
\* (variant: an admitted attempt is not written back)
RecordedNothing(att, key, t) == att
IsAllowed(att, key, t) == Len(ValidAttempts(att, key, t)) < RateMaxAttempts
Recorded(att, key, t) ==
    IF IsAllowed(att, key, t)
    THEN [att EXCEPT ![key] = Append(ValidAttempts(att, key, t), t)]
    ELSE att

\* ------------------------------------------------------------------ handleMessage
\* A parsed frame: its type and the fields the handlers read.
Dispatch(sv, c, type, room, ident, content, typing, t) ==
    CASE type = "join_room" -> HandleJoinRoom(sv, c, room, ident, t)
      [] type = "message"   -> HandleChatMessage(sv, c, content, t)
      [] type = "typing"    -> HandleTyping(sv, c, typing)
      [] type = "ping"      -> HandlePing(sv, c, t)
      [] OTHER              -> sv

\* (variant: the verdict of the limiter is not consulted)
HandleMessageUnlimited(sv, allowed, c, type, room, ident, content, typing, t) ==
    IF c \notin DOMAIN sv.clients THEN sv
    ELSE Dispatch(sv, c, type, room, ident, content, typing, t)

\* `allowed` is the verdict of messageRateLimiter.isAllowed for this frame.
HandleMessage(sv, allowed, c, type, room, ident, content, typing, t) ==
    IF c \notin DOMAIN sv.clients THEN sv
    ELSE IF ~allowed
         THEN SendToClient(sv, c,
                  Ev("error", Undef, Undef, "Rate limit exceeded", NoContent,
                     FALSE, EmptyMap))
         ELSE Dispatch(sv, c, type, room, ident, content, typing, t)

\* A frame JSON.parse rejects: the catch block answers the sender.  The
\* limiter is not consulted, the parse throws before it.
HandleUnparsable(sv, c) ==
    IF c \notin DOMAIN sv.clients THEN sv
    ELSE SendToClient(sv, c,
             Ev("error", Undef, Undef, "Invalid message format", NoContent,
                FALSE, EmptyMap))

\* -------------------------------------------------------------------- actions
Commit(sv) ==
    /\ clients' = sv.clients
    /\ rooms' = sv.rooms
    /\ ws' = sv.ws
    /\ out' = sv.out

\* wss.on('connection'): ids are minted in connection order; at most n
\* connections are ever accepted.
Accept(n) ==
    \E c \in 1..n :
        /\ ws[c] = "NEW"
        /\ \A d \in Conn : d < c => ws[d] # "NEW"
        /\ LET s1 == [Sv EXCEPT !.ws[c] = "OPEN",
                                !.clients = MapPut(@, c,
                                    [userId |-> Undef, username |-> Undef,
                                     roomId |-> Undef, lastPing |-> now,
                                     isAlive |-> TRUE])]
           IN  Commit(SendToClient(s1, c,
                   Ev("connection", Undef, Undef, Undef, NoContent, FALSE, EmptyMap)))
        /\ last' = Last("connection", c)
        /\ UNCHANGED <<now, silent, ticks>>
        /\ UNCHANGED <<routeVars, auxVars>>

\* ws.on('message'): one inbound frame, parsed.  `allowed` is what the rate
\* limiter answers for the frame's key.
\* The trace label of a typing:true frame says whether the frame before it
\* was a typing:true frame of the same connection.
NotAStart == NoKey
FirstStart == <<"start", "first">>
RepeatedStart == <<"start", "again">>
StartMark(c, allowed, type, typing) ==
    IF allowed /\ type = "typing" /\ typing
    THEN IF last.op = "typing" /\ last.conn = c /\ last.key # NotAStart
         THEN RepeatedStart
         ELSE FirstStart
    ELSE NotAStart

Frame(c, allowed, type, room, ident, content, typing) ==
    /\ ws[c] = "OPEN"
    /\ Commit(HandleMessage(Sv, allowed, c, type, room, ident, content, typing, now))
    /\ last' = LastK(type, c, StartMark(c, allowed, type, typing))
    /\ UNCHANGED <<now, silent, ticks>>
    /\ UNCHANGED <<routeVars, auxVars>>

\* client-asserted join fields, some of them missing
JoinInputs ==
    (RoomIds \X Identities) \cup {<<Undef, <<"u1", "ann">>>>, <<"r1", NoIdent>>}

JoinFrame ==
    \E c \in Conn, in \in JoinInputs :
        Frame(c, TRUE, "join_room", in[1], in[2], NoContent, FALSE)

\* The join frames of peers that each assert one identity of their own:
\* connections 1 and 3 are the same user, connection 2 is another.
PeerIdentity(c) == IF c = 2 THEN <<"u2", "bob">> ELSE <<"u1", "ann">>
OwnJoinFrame ==
    \E c \in Conn, in \in JoinInputs :
        /\ in[2] \in {NoIdent, PeerIdentity(c)}
        /\ Frame(c, TRUE, "join_room", in[1], in[2], NoContent, FALSE)

ChatFrame ==
    \E c \in Conn, content \in Contents :
        Frame(c, TRUE, "message", Undef, NoIdent, content, FALSE)

TypingFrame ==
    \E c \in Conn, typing \in BOOLEAN :
        Frame(c, TRUE, "typing", Undef, NoIdent, NoContent, typing)

PingFrame ==
    \E c \in Conn :
        /\ c \notin silent
        /\ Frame(c, TRUE, "ping", Undef, NoIdent, NoContent, FALSE)

\* A frame of any type over the rate limit.
ThrottledFrame ==
    \E c \in Conn, type \in FrameTypes :
        /\ type = "ping" => c \notin silent
        /\ Frame(c, FALSE, type, Undef, NoIdent, NoContent, FALSE)

\* ws.on('message') with a frame that is not JSON.
BadFrame ==
    \E c \in Conn :
        /\ ws[c] = "OPEN"
        /\ Commit(HandleUnparsable(Sv, c))
        /\ last' = Last("unparsable", c)
        /\ UNCHANGED <<now, silent, ticks>>
        /\ UNCHANGED <<routeVars, auxVars>>

\* A typing frame handled while the socket of b throws on send.
FaultyFrame(c, b, typing) ==
    /\ ws[c] = "OPEN"
    /\ ws[b] = "OPEN"
    /\ Commit(HandleMessage([Sv EXCEPT !.bad = {b}], TRUE, c, "typing", Undef,
                            NoIdent, NoContent, typing, now))
    /\ last' = Last("faulty", c)
    /\ UNCHANGED <<now, silent, ticks>>
    /\ UNCHANGED <<routeVars, auxVars>>

FaultyTypingFrame == \E c, b \in Conn, typing \in BOOLEAN : FaultyFrame(c, b, typing)

\* ws.on('pong'): the peer answered a protocol-level ping (or sent an
\* unsolicited pong).
Pong ==
    \E c \in Conn :
        /\ ws[c] = "OPEN"
        /\ c \notin silent
        /\ clients' = IF c \in DOMAIN clients
                      THEN [clients EXCEPT ![c].isAlive = TRUE, ![c].lastPing = now]
                      ELSE clients
        /\ out' = NoOut
        /\ last' = Last("pong", c)
        /\ UNCHANGED <<now, ws, rooms, silent, ticks>>
        /\ UNCHANGED <<routeVars, auxVars>>

\* The peer starts the closing handshake or the connection is lost: the
\* socket leaves OPEN, its 'close' event is still to come.
TransportDrop ==
    \E c \in Conn :
        /\ ws[c] = "OPEN"
        /\ c \notin silent
        /\ ws' = [ws EXCEPT ![c] = "CLOSING"]
        /\ out' = NoOut
        /\ last' = Last("drop", c)
        /\ UNCHANGED <<now, clients, rooms, silent, ticks>>
        /\ UNCHANGED <<routeVars, auxVars>>

\* The trace label of a disconnect says whether the connection had been
\* evicted before.
RepeatedRun == <<"run", "again">>
RunMark(c) ==
    IF c \notin DOMAIN clients THEN RepeatedRun
    ELSE IF /\ clients[c].roomId \in DOMAIN rooms
            /\ c \in rooms[clients[c].roomId].clients
         THEN <<"left", clients[c].roomId>>
         ELSE NoKey

\* ws.on('error'): the socket fails; its 'close' event follows.
WsError ==
    \E c \in Conn :
        /\ ws[c] = "OPEN"
        /\ c \notin silent
        /\ Commit(HandleDisconnect([Sv EXCEPT !.ws[c] = "CLOSING"], c))
        /\ last' = LastK("error", c, RunMark(c))
        /\ UNCHANGED <<now, silent, ticks>>
        /\ UNCHANGED <<routeVars, auxVars>>

\* ws.on('close')
WsClose ==
    \E c \in Conn :
        /\ ws[c] = "CLOSING"
        /\ Commit(HandleDisconnect([Sv EXCEPT !.ws[c] = "CLOSED"], c))
        /\ last' = LastK("close", c, RunMark(c))
        /\ UNCHANGED <<now, silent, ticks>>
        /\ UNCHANGED <<routeVars, auxVars>>

\* ------------------------------------------------------------- startHeartbeat
\* ws.terminate(): the socket is destroyed; its 'close' event comes later.
Terminate(sv, c) ==
    IF sv.ws[c] = "OPEN" THEN [sv EXCEPT !.ws[c] = "CLOSING"] ELSE sv

\* (variant: the heartbeat clears the flag of a connection and never evicts)
HeartbeatVisitMarksOnly(sv, c) == [sv EXCEPT !.clients[c].isAlive = FALSE]

HeartbeatVisit(sv, c) ==
    IF ~sv.clients[c].isAlive
    THEN HandleDisconnect(Terminate(sv, c), c)
    ELSE [sv EXCEPT !.clients[c].isAlive = FALSE]

\* clients.forEach in insertion order, which is the order of the ids.
RECURSIVE HeartbeatFrom(_, _)
HeartbeatFrom(sv, c) ==
    IF c > MaxConns THEN sv
    ELSE HeartbeatFrom(IF c \in DOMAIN sv.clients THEN HeartbeatVisit(sv, c) ELSE sv,
                       c + 1)

Heartbeat ==
    /\ Commit(HeartbeatFrom(Sv, 1))
    /\ last' = Last("heartbeat", NoConn)
    /\ UNCHANGED <<now, silent, ticks>>
    /\ UNCHANGED <<routeVars, auxVars>>

\* --------------------------------------------------------------- startCleanup
CleanupRooms(sv, t) ==
    [sv EXCEPT !.rooms =
        [r \in {x \in DOMAIN sv.rooms : ~(t - sv.rooms[x].lastActivity > RoomTimeoutMs)}
            |-> sv.rooms[r]]]

CleanupVisit(sv, c, t) ==
    IF t - sv.clients[c].lastPing > ClientTimeoutMs
    THEN HandleDisconnect(sv, c)
    ELSE sv

RECURSIVE CleanupFrom(_, _, _)
CleanupFrom(sv, c, t) ==
    IF c > MaxConns THEN sv
    ELSE CleanupFrom(IF c \in DOMAIN sv.clients THEN CleanupVisit(sv, c, t) ELSE sv,
                     c + 1, t)

Cleanup ==
    /\ Commit(CleanupFrom(CleanupRooms(Sv, now), 1, now))
    /\ last' = Last("cleanup", NoConn)
    /\ UNCHANGED <<now, silent, ticks>>
    /\ UNCHANGED <<routeVars, auxVars>>

\* Time passes.
Tick ==
    \E d \in TickSteps :
        /\ ticks < MaxTicks
        /\ now' = now + d
        /\ ticks' = ticks + 1
        /\ out' = NoOut
        /\ last' = Last("tick", NoConn)
        /\ UNCHANGED <<ws, clients, rooms, silent>>
        /\ UNCHANGED <<routeVars, auxVars>>

Init ==
    /\ now = 0
    /\ ws = [c \in Conn |-> "NEW"]
    /\ clients = EmptyMap
    /\ rooms = EmptyMap
    /\ silent = {}
    /\ ticks = 0
    /\ out = NoOut
    /\ last = Last("init", NoConn)
    /\ connections = EmptyMap
    /\ roomConnections = EmptyMap
    /\ userTyping = EmptyMap
    /\ timers = {}
    /\ store = EmptyMap
    /\ attempts = [k \in Conn \X FrameTypes |-> <<>>]
    /\ sent = [c \in Conn |-> 0]
    /\ inbound = [c \in Conn |-> <<>>]
    /\ delivered = [c \in Conn |-> <<>>]
    /\ dispatched = [k \in Conn \X FrameTypes |-> <<>>]
    /\ client = [ws |-> NoSock, reconnectAttempts |-> 0, reconnectTimer |-> NoHandle,
                 isManualDisconnect |-> FALSE]
    /\ sockets = [s \in Sock |-> [readyState |-> "NONE", opened |-> FALSE]]
    /\ timeouts = {}
    /\ handles = 0
    /\ halted = FALSE

\* The peer stops answering: from now on it sends no ping frame and no pong
\* and it never closes its transport.
GoSilent ==
    \E c \in Conn :
        /\ ws[c] = "OPEN"
        /\ c \notin silent
        /\ silent' = silent \cup {c}
        /\ out' = NoOut
        /\ last' = Last("silent", c)
        /\ UNCHANGED <<now, ws, clients, rooms, ticks>>
        /\ UNCHANGED <<routeVars, auxVars>>

Connect == Accept(MaxConns)
ConnectTimed == Accept(MaxTimedConns)
ConnectLive == Accept(MaxLiveConns)

\* The server while no time passes, three peers with an identity each.
Next ==
    \/ Connect
    \/ OwnJoinFrame
    \/ ChatFrame
    \/ TypingFrame
    \/ PingFrame
    \/ ThrottledFrame
    \/ BadFrame
    \/ FaultyTypingFrame
    \/ Pong
    \/ TransportDrop
    \/ WsError
    \/ WsClose
    \/ Heartbeat
    \/ Cleanup

Spec == Init /\ [][Next]_vars

\* The server with the clock running.
TNext ==
    \/ ConnectTimed
    \/ JoinFrame
    \/ ChatFrame
    \/ TypingFrame
    \/ PingFrame
    \/ ThrottledFrame
    \/ BadFrame
    \/ Pong
    \/ TransportDrop
    \/ WsError
    \/ WsClose
    \/ Heartbeat
    \/ Cleanup
    \/ Tick

TSpec == Init /\ [][TNext]_vars

\* The server with peers that may fall silent, under fair sweeps.
LNext ==
    \/ ConnectLive
    \/ JoinFrame
    \/ PingFrame
    \/ ThrottledFrame
    \/ BadFrame
    \/ Pong
    \/ TransportDrop
    \/ WsError
    \/ WsClose
    \/ Heartbeat
    \/ Cleanup
    \/ GoSilent

LSpec == Init /\ [][LNext]_vars /\ WF_vars(Heartbeat) /\ WF_vars(Cleanup)

\* ------------------------------------------------------ the sweeps, on time
\* The sweeps due when the clock reaches t: the heartbeat at every multiple
\* of its interval, the cleanup at every multiple of its own.
SweepsAt(sv, t) ==
    LET s1 == HeartbeatFrom(sv, 1)
    IN  IF t % CleanupIntervalMs = 0
        THEN CleanupFrom(CleanupRooms(s1, t), 1, t)
        ELSE s1

\* The clock moves in thirds of the heartbeat interval.
ClockStepMs == HeartbeatIntervalMs \div 3

\* The clock reaches a multiple of the heartbeat interval and the interval
\* callbacks run.
Beat ==
    /\ ticks < MaxClockSteps
    /\ (now + ClockStepMs) % HeartbeatIntervalMs = 0
    /\ now' = now + ClockStepMs
    /\ ticks' = ticks + 1
    /\ Commit(SweepsAt(Sv, now + ClockStepMs))
    /\ last' = Last("beat", NoConn)
    /\ UNCHANGED silent
    /\ UNCHANGED <<routeVars, auxVars>>

\* The clock moves and no interval callback is due.
QuietStep ==
    /\ ticks < MaxClockSteps
    /\ (now + ClockStepMs) % HeartbeatIntervalMs # 0
    /\ now' = now + ClockStepMs
    /\ ticks' = ticks + 1
    /\ out' = NoOut
    /\ last' = Last("tick", NoConn)
    /\ UNCHANGED <<ws, clients, rooms, silent>>
    /\ UNCHANGED <<routeVars, auxVars>>

ConnectBeat == Accept(MaxBeatConns)

\* The server with its interval timers firing on schedule.
HNext ==
    \/ ConnectBeat
    \/ PingFrame
    \/ Pong
    \/ Beat
    \/ QuietStep
    \/ TransportDrop
    \/ WsClose

HSpec == Init /\ [][HNext]_vars

\* ----------------------------------------------------- the limiter, exactly
\* ws.on('message') with the limiter's own verdict: isAllowed is asked for
\* the key of a registered connection's frame and records the attempt it
\* admits.
Metered(c, type, room, ident, content, typing) ==
    /\ ws[c] = "OPEN"
    /\ LET key == RateKey(c, type)
       IN  /\ Commit(HandleMessage(Sv, IsAllowed(attempts, key, now), c, type,
                                   room, ident, content, typing, now))
           /\ attempts' = IF c \in DOMAIN clients
                          THEN Recorded(attempts, key, now)
                          ELSE attempts
    /\ last' = Last(type, c)
    /\ UNCHANGED <<now, silent, ticks>>
    /\ UNCHANGED <<routeVars, streamVars, clientVars>>

MeteredFrame(c, type, room, ident, content, typing) ==
    /\ Metered(c, type, room, ident, content, typing)
    /\ UNCHANGED dispatched

MeteredPing ==
    \E c \in Conn : MeteredFrame(c, "ping", Undef, NoIdent, NoContent, FALSE)

\* Half a limiter window passes.
ShortTick ==
    /\ ticks < MaxShortTicks
    /\ now' = now + RateWindowMs \div 2
    /\ ticks' = ticks + 1
    /\ out' = NoOut
    /\ last' = Last("tick", NoConn)
    /\ UNCHANGED <<ws, clients, rooms, silent>>
    /\ UNCHANGED <<routeVars, auxVars>>

ConnectMetered == Accept(MaxMeteredConns)

\* The server with the limiter's bookkeeping, its peers sending pings.
MNext ==
    \/ ConnectMetered
    \/ MeteredPing
    \/ ShortTick
    \/ Heartbeat
    \/ TransportDrop
    \/ WsClose

MSpec == Init /\ [][MNext]_vars

\* ------------------------------------------------- the dispatcher, on record
\* ws.on('message') with the limiter's own verdict, and a record of every
\* frame for which handleMessage went on to the switch that calls a handler.
ReachedHandler(c, type, room, ident, content, typing) ==
    /\ c \in DOMAIN clients
    /\ HandleMessage(Sv, IsAllowed(attempts, RateKey(c, type), now), c, type,
                     room, ident, content, typing, now)
           = Dispatch(Sv, c, type, room, ident, content, typing, now)

LoggedFrame(c, type, room, ident, content, typing) ==
    /\ Metered(c, type, room, ident, content, typing)
    /\ dispatched' =
           IF ReachedHandler(c, type, room, ident, content, typing)
           THEN [dispatched EXCEPT ![RateKey(c, type)] = Append(@, now)]
           ELSE dispatched

\* Each peer joins room r1 once, under its own identity.
LoggedJoin ==
    \E c \in DOMAIN clients :
        /\ clients[c].roomId = Undef
        /\ LoggedFrame(c, "join_room", "r1", PeerIdentity(c), NoContent, FALSE)

\* The first MaxTalkers peers send message and ping frames, the others
\* listen.
LoggedChat ==
    \E c \in 1..MaxTalkers :
        LoggedFrame(c, "message", Undef, NoIdent, Str(0, 1, 0), FALSE)

\* A talker sends at most MaxLoggedPings pings.
LoggedPing ==
    \E c \in 1..MaxTalkers :
        /\ Len(dispatched[RateKey(c, "ping")]) < MaxLoggedPings
        /\ LoggedFrame(c, "ping", Undef, NoIdent, NoContent, FALSE)

ConnectLogged == Accept(MaxLoggedConns)

GNext ==
    \/ ConnectLogged
    \/ LoggedJoin
    \/ LoggedChat
    \/ LoggedPing
    \/ ShortTick

GSpec == Init /\ [][GNext]_vars

\* ------------------------------------------------- one sender's frame stream
\* The socket emits 'message' for the frames of a connection in the order
\* they arrived; the listener handles each to completion.
\* (variant: the frame that arrived last is handled first)
LastIndex(q) == Len(q)
NextIndex(q) == 1
Without(q, i) == SubSeq(q, 1, i - 1) \o SubSeq(q, i + 1, Len(q))
\* The message events among evs, each with the connection whose frame caused
\* it and the number that frame has in its sender's stream.
Tagged(c, evs) ==
    LET msgs == SelectSeq(evs, LAMBDA e : e.type = "message")
    IN  [i \in DOMAIN msgs |-> [from |-> c, n |-> msgs[i].content.body]]

\* A peer puts its next message frame on the wire: the n-th frame of a
\* connection carries a content of n characters.
PeerSends ==
    \E c \in Conn :
        /\ ws[c] = "OPEN"
        /\ sent[c] < MaxSent
        /\ sent' = [sent EXCEPT ![c] = @ + 1]
        /\ inbound' = [inbound EXCEPT ![c] = Append(@, Str(0, sent[c] + 1, 0))]
        /\ out' = NoOut
        /\ last' = Last("sends", c)
        /\ UNCHANGED <<serverVars, routeVars, attempts, delivered, dispatched,
                       clientVars>>

\* ws.on('message') for the next frame of c that is waiting.
StreamFrame(c, allowed) ==
    /\ ws[c] = "OPEN"
    /\ inbound[c] # <<>>
    /\ LET i == NextIndex(inbound[c])
           s == HandleMessage(Sv, allowed, c, "message", Undef, NoIdent,
                              inbound[c][i], FALSE, now)
       IN  /\ Commit(s)
           /\ inbound' = [inbound EXCEPT ![c] = Without(@, i)]
           /\ delivered' = [m \in Conn |-> delivered[m] \o Tagged(c, s.out[m])]
    /\ last' = Last("message", c)
    /\ UNCHANGED <<now, silent, ticks>>
    /\ UNCHANGED <<routeVars, attempts, sent, dispatched, clientVars>>

HandleNextFrame == \E c \in Conn : StreamFrame(c, TRUE)
RefuseNextFrame == \E c \in Conn : StreamFrame(c, FALSE)

\* A join frame of a connection none of whose message frames is waiting.
StreamJoin ==
    \E c \in Conn, r \in RoomIds :
        /\ inbound[c] = <<>>
        /\ Frame(c, TRUE, "join_room", r, PeerIdentity(c), NoContent, FALSE)

ConnectStream == Accept(MaxStreamConns)

\* The server with the frames of each peer in flight.
ONext ==
    \/ ConnectStream
    \/ StreamJoin
    \/ PeerSends
    \/ HandleNextFrame
    \/ RefuseNextFrame
    \/ TransportDrop
    \/ WsClose

OSpec == Init /\ [][ONext]_vars

(***************************************************************************)
(* Part II: app/api/ws/route.ts                                            *)
(***************************************************************************)
UserIds == {"u1", "u2"}
RContents == Contents \cup {Str(1, 2, 1), Str(1, 999, 1)}
TypingKey(roomId, userId) == <<roomId, userId>>

\* The module's mutable state as one value.
\* `bad` are the sockets whose send() throws while the current event is
\* handled; `thrown` says that an exception is propagating.
Rt == [connections |-> connections, roomConnections |-> roomConnections,
       userTyping |-> userTyping, timers |-> timers, store |-> store,
       ws |-> ws, out |-> NoOut, bad |-> {}, thrown |-> FALSE]

\* connection.ws.send(...): only an OPEN socket takes the write.  Nothing
\* between the send and handleMessage's catch block catches what it throws.
RSend(rt, c, ev) ==
    IF rt.ws[c] # "OPEN" THEN rt
    ELSE IF c \in rt.bad THEN [rt EXCEPT !.thrown = TRUE]
    ELSE [rt EXCEPT !.out[c] = Append(@, ev)]

\* ---------------------------------------------------------- broadcastToRoom
RECURSIVE RSendEach(_, _, _)
\* Set.forEach visits in insertion order: a connection is added to its room
\* when it is registered, and ids are minted in registration order.  An
\* exception ends the iteration.
RSendEach(rt, targets, ev) ==
    IF targets = {} \/ rt.thrown THEN rt
    ELSE LET c == CHOOSE x \in targets : \A y \in targets : x <= y
         IN  RSendEach(IF c \in DOMAIN rt.connections THEN RSend(rt, c, ev) ELSE rt,
                       targets \ {c}, ev)

RBroadcastToRoom(rt, r, ev, exclude) ==
    IF r \notin DOMAIN rt.roomConnections THEN rt
    ELSE RSendEach(rt, rt.roomConnections[r] \ {exclude}, ev)

\* `connection.id`: the records kept in `connections` have no id field, so
\* the expression is undefined and excludes nobody.
ConnectionIdField(c) == NoConn

\* -------------------------------------------------------------- handleChatMessage
RHandleChatMessage(rt, c, content) ==
    LET conn == rt.connections[c]
        r == conn.roomId
        err(text) == Ev("error", Undef, Undef, text, NoContent, FALSE, EmptyMap)
    IN  IF StrLen(content) = 0 \/ StrLen(Trim(content)) = 0 THEN rt
        ELSE IF StrLen(content) > MaxMessageLength THEN RSend(rt, c, err("too long"))
        ELSE IF r \notin DOMAIN rt.store THEN RSend(rt, c, err("room not found"))
        ELSE IF ~rt.store[r].active THEN RSend(rt, c, err("room inactive"))
        ELSE RBroadcastToRoom(rt, r,
                 Ev("message", r, conn.userId, conn.username, Trim(content),
                    FALSE, EmptyMap), NoConn)

\* ------------------------------------------------------------------ handleTyping
\* setTimeout returns a handle not in use; the closure keeps the key it was
\* created for.
NewTimer(pending, roomId, userId, username) ==
    LET free == CHOOSE n \in 1..(Cardinality(pending) + 1) :
                    /\ [room |-> roomId, user |-> userId, name |-> username, n |-> n]
                           \notin pending
                    /\ \A m \in 1..(n - 1) :
                           [room |-> roomId, user |-> userId, name |-> username, n |-> m]
                               \in pending
    IN  [room |-> roomId, user |-> userId, name |-> username, n |-> free]

TypingEv(roomId, userId, username, isTyping) ==
    Ev("typing", roomId, userId, username, NoContent, isTyping, EmptyMap)

\* (variant: the timer of the indicator being replaced is left running)
ClearNothing(rt, key) == rt

\* clearTimeout(existing.timeout)
ClearExisting(rt, key) ==
    IF key \in DOMAIN rt.userTyping
    THEN [rt EXCEPT !.timers = @ \ {rt.userTyping[key].timeout}]
    ELSE rt

RTypingStart(rt, c) ==
    LET conn == rt.connections[c]
        key == TypingKey(conn.roomId, conn.userId)
        s1 == ClearExisting(rt, key)
        h == NewTimer(s1.timers, conn.roomId, conn.userId, conn.username)
        s2 == [s1 EXCEPT !.timers = @ \cup {h},
                         !.userTyping = MapPut(@, key,
                             [userId |-> conn.userId, username |-> conn.username,
                              roomId |-> conn.roomId, timeout |-> h])]
    IN  RBroadcastToRoom(s2, conn.roomId,
            TypingEv(conn.roomId, conn.userId, conn.username, TRUE),
            ConnectionIdField(c))

\* (variant: a stop forgets the indicator and leaves its timer running)
RTypingStopKeepsTimer(rt, c) ==
    LET conn == rt.connections[c]
        key == TypingKey(conn.roomId, conn.userId)
        s2 == [rt EXCEPT !.userTyping = MapDel(@, key)]
    IN  RBroadcastToRoom(s2, conn.roomId,
            TypingEv(conn.roomId, conn.userId, conn.username, FALSE), NoConn)

RTypingStop(rt, c) ==
    LET conn == rt.connections[c]
        key == TypingKey(conn.roomId, conn.userId)
        s1 == ClearExisting(rt, key)
        s2 == [s1 EXCEPT !.userTyping = MapDel(@, key)]
    IN  RBroadcastToRoom(s2, conn.roomId,
            TypingEv(conn.roomId, conn.userId, conn.username, FALSE), NoConn)

RHandleTyping(rt, c, isTyping) ==
    IF isTyping THEN RTypingStart(rt, c) ELSE RTypingStop(rt, c)

\* The callback given to setTimeout: the auto-stop.
TimerCallback(rt, h) ==
    RBroadcastToRoom([rt EXCEPT !.userTyping = MapDel(@, TypingKey(h.room, h.user))],
        h.room, TypingEv(h.room, h.user, h.name, FALSE), NoConn)

\* ------------------------------------------------------------------ handleClose
\* (variant: the close leaves the typing entry and its timer alone)
RHandleCloseKeepsTyping(rt, c) ==
    IF c \notin DOMAIN rt.connections THEN rt
    ELSE LET conn == rt.connections[c]
             r == conn.roomId
             s1 == [rt EXCEPT !.connections = MapDel(@, c)]
             s3 == IF r \in DOMAIN s1.roomConnections
                   THEN IF s1.roomConnections[r] \ {c} = {}
                        THEN [s1 EXCEPT !.roomConnections = MapDel(@, r)]
                        ELSE [s1 EXCEPT !.roomConnections[r] = @ \ {c}]
                   ELSE s1
             hasOther == \E d \in DOMAIN s3.connections :
                             /\ s3.connections[d].userId = conn.userId
                             /\ s3.connections[d].roomId = r
         IN  IF /\ r \in DOMAIN s3.store
                /\ conn.userId \in DOMAIN s3.store[r].participants
                /\ ~hasOther
             THEN LET s4 == [s3 EXCEPT !.store[r].participants[conn.userId] = FALSE]
                      online == {u \in DOMAIN s4.store[r].participants :
                                    s4.store[r].participants[u]}
                  IN  RBroadcastToRoom(s4, r,
                          Ev("user_left", r, conn.userId, conn.username, NoContent,
                             FALSE, [u \in online |-> TRUE]), NoConn)
             ELSE s3

RHandleClose(rt, c) ==
    IF c \notin DOMAIN rt.connections THEN rt
    ELSE LET conn == rt.connections[c]
             r == conn.roomId
             key == TypingKey(r, conn.userId)
             s1 == [rt EXCEPT !.connections = MapDel(@, c)]
             s2 == IF r \in DOMAIN s1.roomConnections
                   THEN IF s1.roomConnections[r] \ {c} = {}
                        THEN [s1 EXCEPT !.roomConnections = MapDel(@, r)]
                        ELSE [s1 EXCEPT !.roomConnections[r] = @ \ {c}]
                   ELSE s1
             s3 == [ClearExisting(s2, key) EXCEPT !.userTyping = MapDel(@, key)]
             hasOther == \E d \in DOMAIN s3.connections :
                             /\ s3.connections[d].userId = conn.userId
                             /\ s3.connections[d].roomId = r
         IN  IF /\ r \in DOMAIN s3.store
                /\ conn.userId \in DOMAIN s3.store[r].participants
                /\ ~hasOther
             THEN LET s4 == [s3 EXCEPT !.store[r].participants[conn.userId] = FALSE]
                      online == {u \in DOMAIN s4.store[r].participants :
                                    s4.store[r].participants[u]}
                  IN  RBroadcastToRoom(s4, r,
                          Ev("user_left", r, conn.userId, conn.username, NoContent,
                             FALSE, [u \in online |-> TRUE]), NoConn)
             ELSE s3

\* ------------------------------------------------------------------ handleMessage
RHandleMessage(rt, c, type, content, isTyping) ==
    IF c \notin DOMAIN rt.connections THEN rt
    ELSE CASE type = "message" -> RHandleChatMessage(rt, c, content)
           [] type = "typing"  -> RHandleTyping(rt, c, isTyping)
           [] type = "ping"    ->
                  RSend(rt, c, Ev("pong", Undef, Undef, Undef, NoContent, FALSE, EmptyMap))
           [] OTHER            -> rt

\* A frame JSON.parse rejects: the catch block writes to the console only.
RHandleUnparsable(rt, c) == rt

\* -------------------------------------------------------------------- actions
RCommit(rt) ==
    /\ connections' = rt.connections
    /\ roomConnections' = rt.roomConnections
    /\ userTyping' = rt.userTyping
    /\ timers' = rt.timers
    /\ store' = rt.store
    /\ ws' = rt.ws
    /\ out' = rt.out

\* The external WebSocket server the module exports its maps to: after the
\* checks of GET (the room exists, the user is one of its participants) it
\* registers the socket under a fresh id for that room.
RAccept ==
    \E c \in 1..MaxRouteConns, r \in RoomIds, ident \in Identities :
        /\ ws[c] = "NEW"
        /\ \A d \in Conn : d < c => ws[d] # "NEW"
        /\ r \in DOMAIN store
        /\ ident[1] \in DOMAIN store[r].participants
        /\ RCommit([Rt EXCEPT !.ws[c] = "OPEN",
                              !.connections = MapPut(@, c,
                                  [userId |-> ident[1], username |-> ident[2],
                                   roomId |-> r]),
                              !.roomConnections = MapPut(@, r,
                                  (IF r \in DOMAIN roomConnections
                                   THEN roomConnections[r] ELSE {}) \cup {c})])
        /\ last' = Last("accept", c)
        /\ UNCHANGED <<now, clients, rooms, silent, ticks, auxVars>>

\* The trace label of a typing start says whether its key had an indicator.
RStartMark(c, type, isTyping) ==
    IF type = "typing" /\ isTyping /\ c \in DOMAIN connections
    THEN IF TypingKey(connections[c].roomId, connections[c].userId)
                \in DOMAIN userTyping
         THEN RepeatedStart
         ELSE FirstStart
    ELSE NotAStart

RFrame(c, type, content, isTyping) ==
    /\ ws[c] = "OPEN"
    /\ RCommit(RHandleMessage(Rt, c, type, content, isTyping))
    /\ last' = LastK(type, c, RStartMark(c, type, isTyping))
    /\ UNCHANGED <<now, clients, rooms, silent, ticks, auxVars>>

RChatFrame == \E c \in Conn, content \in RContents : RFrame(c, "message", content, FALSE)
RTypingFrame == \E c \in Conn, isTyping \in BOOLEAN : RFrame(c, "typing", NoContent, isTyping)
RPingFrame == \E c \in Conn : RFrame(c, "ping", NoContent, FALSE)

RBadFrame ==
    \E c \in Conn :
        /\ ws[c] = "OPEN"
        /\ RCommit(RHandleUnparsable(Rt, c))
        /\ last' = Last("unparsable", c)
        /\ UNCHANGED <<now, clients, rooms, silent, ticks, auxVars>>

\* A typing frame handled while the socket of b throws on send.
RFaultyFrame(c, b, isTyping) ==
    /\ ws[c] = "OPEN"
    /\ ws[b] = "OPEN"
    /\ RCommit(RHandleMessage([Rt EXCEPT !.bad = {b}], c, "typing", NoContent,
                              isTyping))
    /\ last' = Last("faulty", c)
    /\ UNCHANGED <<now, clients, rooms, silent, ticks, auxVars>>

RFaultyTypingFrame == \E c, b \in Conn, isTyping \in BOOLEAN : RFaultyFrame(c, b, isTyping)

\* The typing auto-stop of a pending timer runs.
RTimerFires ==
    \E h \in timers :
        /\ RCommit(TimerCallback([Rt EXCEPT !.timers = @ \ {h}], h))
        /\ last' = LastK("timer", NoConn, TypingKey(h.room, h.user))
        /\ UNCHANGED <<now, clients, rooms, silent, ticks, auxVars>>

\* The socket leaves OPEN; its 'close' event is still to come.
RDrop ==
    \E c \in Conn :
        /\ ws[c] = "OPEN"
        /\ ws' = [ws EXCEPT ![c] = "CLOSING"]
        /\ out' = NoOut
        /\ last' = Last("drop", c)
        /\ UNCHANGED <<now, clients, rooms, silent, ticks>>
        /\ UNCHANGED <<routeVars, auxVars>>

\* The trace label of a close says whether the connection's typing key had
\* an indicator.
TypingPending == <<"typing", "pending">>
RCloseMark(c) ==
    IF /\ c \in DOMAIN connections
       /\ TypingKey(connections[c].roomId, connections[c].userId)
              \in DOMAIN userTyping
    THEN TypingPending
    ELSE NoKey

\* The socket's 'close' event.
RClose ==
    \E c \in Conn :
        /\ ws[c] = "CLOSING"
        /\ RCommit(RHandleClose([Rt EXCEPT !.ws[c] = "CLOSED"], c))
        /\ last' = LastK("close", c, RCloseMark(c))
        /\ UNCHANGED <<now, clients, rooms, silent, ticks, auxVars>>

\* The room store behind the REST routes: a room is created, a user joins
\* it, a room expires or is deactivated.
StoreCreate ==
    \E r \in RoomIds :
        /\ r \notin DOMAIN store
        /\ store' = MapPut(store, r, [active |-> TRUE, participants |-> EmptyMap])
        /\ out' = NoOut
        /\ last' = Last("store", NoConn)
        /\ UNCHANGED <<serverVars, connections, roomConnections, userTyping, timers, auxVars>>

StoreJoin ==
    \E r \in DOMAIN store, u \in UserIds :
        /\ store[r].active
        /\ store' = [store EXCEPT ![r].participants = MapPut(@, u, TRUE)]
        /\ store' # store
        /\ out' = NoOut
        /\ last' = Last("store", NoConn)
        /\ UNCHANGED <<serverVars, connections, roomConnections, userTyping, timers, auxVars>>

StoreDeactivate ==
    \E r \in DOMAIN store :
        /\ store[r].active
        /\ store' = [store EXCEPT ![r].active = FALSE]
        /\ out' = NoOut
        /\ last' = Last("store", NoConn)
        /\ UNCHANGED <<serverVars, connections, roomConnections, userTyping, timers, auxVars>>

RNext ==
    \/ RAccept
    \/ RChatFrame
    \/ RTypingFrame
    \/ RPingFrame
    \/ RBadFrame
    \/ RFaultyTypingFrame
    \/ RTimerFires
    \/ RDrop
    \/ RClose
    \/ StoreCreate
    \/ StoreJoin
    \/ StoreDeactivate

RSpec == Init /\ [][RNext]_vars

(***************************************************************************)
(* Part III: lib/websocket/client.ts, class WebSocketClient                *)
(***************************************************************************)
\* The client object, the sockets it created and its timers as one value.
Cl == [client |-> client, sockets |-> sockets, timeouts |-> timeouts,
       handles |-> handles]

\* new WebSocket(url): the next socket object.
CanCreate(cl) == \E s \in Sock : cl.sockets[s].readyState = "NONE"
NewSocket(cl) ==
    CHOOSE s \in Sock :
        /\ cl.sockets[s].readyState = "NONE"
        /\ \A d \in Sock : d < s => cl.sockets[d].readyState # "NONE"

\* WebSocket.close(): a socket that is connecting or open starts closing.
SocketClose(cl, s) ==
    IF cl.sockets[s].readyState \in {"CONNECTING", "OPEN"}
    THEN [cl EXCEPT !.sockets[s].readyState = "CLOSING"]
    ELSE cl

\* setTimeout(callback, delay) at time t.  `made` is the socket the call of
\* connect() that set a connection timeout had created.
Timeout(h, kind, due, made) == [id |-> h, kind |-> kind, due |-> due, made |-> made]

\* ------------------------------------------------------------------ connect
CallConnect(cl, t) ==
    LET s == NewSocket(cl)
        h == cl.handles + 1
    IN  [cl EXCEPT !.client.isManualDisconnect = FALSE,
                   !.client.ws = s,
                   !.sockets[s] = [readyState |-> "CONNECTING", opened |-> FALSE],
                   !.timeouts = @ \cup {Timeout(h, "timeout", t + ConnectTimeoutMs, s)},
                   !.handles = h]

\* ws.onopen
OnOpen(cl) ==
    [cl EXCEPT !.client.reconnectAttempts = 0,
               !.client.isManualDisconnect = FALSE]

\* ----------------------------------------------------------- handleReconnect
HandleReconnect(cl, t) ==
    IF cl.client.reconnectAttempts >= MaxReconnectAttempts THEN cl
    ELSE LET n == cl.client.reconnectAttempts + 1
             delay == ReconnectIntervalMs * 2 ^ (n - 1)
             h == cl.handles + 1
         IN  [cl EXCEPT !.client.reconnectAttempts = n,
                        !.client.reconnectTimer = h,
                        !.timeouts = @ \cup {Timeout(h, "reconnect", t + delay, NoSock)},
                        !.handles = h]

\* ws.onclose
OnClose(cl, code, t) ==
    IF ~cl.client.isManualDisconnect /\ code # 1000
    THEN HandleReconnect(cl, t)
    ELSE cl

\* The callback of the connection timeout.
ConnectionTimeout(cl) ==
    IF /\ cl.client.ws # NoSock
       /\ cl.sockets[cl.client.ws].readyState = "CONNECTING"
    THEN SocketClose(cl, cl.client.ws)
    ELSE cl

\* The callback of the reconnect timer.
ReconnectCallback(cl, t) ==
    IF ~cl.client.isManualDisconnect THEN CallConnect(cl, t) ELSE cl

\* --------------------------------------------------------------- disconnect
CallDisconnect(cl) ==
    LET s1 == [cl EXCEPT !.client.isManualDisconnect = TRUE]
        s2 == IF s1.client.reconnectTimer # NoHandle
              THEN [s1 EXCEPT !.timeouts = {tm \in @ : tm.id # s1.client.reconnectTimer},
                              !.client.reconnectTimer = NoHandle]
              ELSE s1
    IN  IF s2.client.ws # NoSock
        THEN [SocketClose(s2, s2.client.ws) EXCEPT !.client.ws = NoSock]
        ELSE s2

\* ------------------------------------------------------------------ actions
CCommit(cl) ==
    /\ client' = cl.client
    /\ sockets' = cl.sockets
    /\ timeouts' = cl.timeouts
    /\ handles' = cl.handles

ClientFrame ==
    /\ out' = NoOut
    /\ UNCHANGED <<ws, clients, rooms, silent>>
    /\ UNCHANGED <<routeVars, attempts, streamVars, dispatched>>

\* The application calls connect().
Connects ==
    /\ CanCreate(Cl)
    /\ CCommit(CallConnect(Cl, now))
    /\ halted' = FALSE
    /\ last' = Last("connect", NewSocket(Cl))
    /\ UNCHANGED <<now, ticks>>
    /\ ClientFrame

\* The application calls disconnect().
Disconnects ==
    /\ CCommit(CallDisconnect(Cl))
    /\ halted' = TRUE
    /\ last' = Last("disconnect", client.ws)
    /\ UNCHANGED <<now, ticks>>
    /\ ClientFrame

\* The connection of a socket is established: its open event.
SocketOpens ==
    \E s \in Sock :
        /\ sockets[s].readyState = "CONNECTING"
        /\ CCommit(OnOpen([Cl EXCEPT !.sockets[s] =
                               [readyState |-> "OPEN", opened |-> TRUE]]))
        /\ last' = Last("open", s)
        /\ UNCHANGED <<now, ticks, halted>>
        /\ ClientFrame

\* The connection of a socket ends or fails: its close event.  Only a
\* connection that was established can end with a normal closure.
SocketCloses ==
    \E s \in Sock, code \in CloseCodes :
        /\ sockets[s].readyState \in {"CONNECTING", "OPEN", "CLOSING"}
        /\ code = 1000 => sockets[s].opened
        /\ CCommit(OnClose([Cl EXCEPT !.sockets[s].readyState = "CLOSED"], code, now))
        /\ last' = LastK("closed", s, <<"code", IF code = 1000 THEN "normal" ELSE "abnormal">>)
        /\ UNCHANGED <<now, ticks, halted>>
        /\ ClientFrame

\* The timer that is due first runs its callback; of two due together the
\* one set first.
DueFirst(tm) ==
    /\ tm \in timeouts
    /\ tm.due <= now
    /\ \A o \in timeouts : o.due > tm.due \/ (o.due = tm.due /\ o.id >= tm.id)

TimeoutFires ==
    \E tm \in timeouts :
        /\ DueFirst(tm)
        /\ tm.kind = "timeout"
        /\ CCommit(ConnectionTimeout([Cl EXCEPT !.timeouts = @ \ {tm}]))
        /\ last' = Last("timeout", tm.made)
        /\ UNCHANGED <<now, ticks, halted>>
        /\ ClientFrame

ReconnectFires ==
    \E tm \in timeouts :
        /\ DueFirst(tm)
        /\ tm.kind = "reconnect"
        /\ client.isManualDisconnect \/ CanCreate(Cl)
        /\ CCommit(ReconnectCallback([Cl EXCEPT !.timeouts = @ \ {tm}], now))
        /\ last' = Last("reconnect", tm.id)
        /\ UNCHANGED <<now, ticks, halted>>
        /\ ClientFrame

\* Time passes while no timer is due; the clock is read at every half of
\* the connection timeout, and a timer that fell due in between runs then.
ClientStepMs == ConnectTimeoutMs \div 2
ClientTick ==
    /\ ticks < MaxClientSteps
    /\ \A tm \in timeouts : tm.due > now
    /\ now' = now + ClientStepMs
    /\ ticks' = ticks + 1
    /\ last' = Last("tick", NoConn)
    /\ UNCHANGED clientVars
    /\ ClientFrame

CNext ==
    \/ Connects
    \/ Disconnects
    \/ SocketOpens
    \/ SocketCloses
    \/ TimeoutFires
    \/ ReconnectFires
    \/ ClientTick

CSpec == Init /\ [][CNext]_vars

(***************************************************************************)
(* Part IV: the properties                                                 *)
(***************************************************************************)
\* c is listed in the membership of the room it points at.
Member(c) ==
    /\ c \in DOMAIN clients
    /\ clients[c].roomId \in DOMAIN rooms
    /\ c \in rooms[clients[c].roomId].clients
\* sendToClient can write to m.
Writable(m) == m \in DOMAIN clients /\ ws[m] = "OPEN"
\* content a valid message carries: not blank, at most 1000 characters.
SpecValid(content) ==
    StrLen(Trim(content)) > 0 /\ StrLen(content) <= MaxMessageLength
\* The step is the handling of a `message` frame of c within the rate limit.
ChatStep(c, content) ==
    /\ last'.op = "message"
    /\ last'.conn = c
    /\ Frame(c, TRUE, "message", Undef, NoIdent, content, FALSE)
MessageEv(c, content) ==
    Ev("message", clients[c].roomId, clients[c].userId, clients[c].username,
       content, FALSE, EmptyMap)

\* The events of one type in a socket's output, in order.
OfType(evs, type) == SelectSeq(evs, LAMBDA e : e.type = type)
\* The step is the handling of a valid `join_room` frame of c within the
\* rate limit.
JoinStep(c, room, ident) ==
    /\ last'.op = "join_room"
    /\ last'.conn = c
    /\ Frame(c, TRUE, "join_room", room, ident, NoContent, FALSE)
RoomsOf(rms, c) == {r \in DOMAIN rms : c \in rms[r].clients}
UserLeftEv(c) ==
    Ev("user_left", clients[c].roomId, clients[c].userId, clients[c].username,
       NoContent, FALSE, EmptyMap)

Range(seq) == {seq[i] : i \in DOMAIN seq}

\* The step is a `message` frame, within the rate limit, of a registered
\* connection whose roomId is unset.
OutsideChatStep(c, content) ==
    /\ c \in DOMAIN clients
    /\ clients[c].roomId = Undef
    /\ ChatStep(c, content)

\* The step is the handling of a `typing` frame of the registered route
\* connection c.
RTypingStep(c, isTyping) ==
    /\ last'.op = "typing"
    /\ last'.conn = c
    /\ c \in DOMAIN connections
    /\ RFrame(c, "typing", NoContent, isTyping)
\* The connections of room r that a broadcast can write to.
RWritable(r) ==
    IF r \in DOMAIN roomConnections
    THEN {m \in roomConnections[r] : m \in DOMAIN connections /\ ws[m] = "OPEN"}
    ELSE {}
TypingCount(evs, isTyping) ==
    Len(SelectSeq(evs, LAMBDA e : e.type = "typing" /\ e.typing = isTyping))
KeyOf(h) == TypingKey(h.room, h.user)

\* The step is the handling of a typing:true frame of c within the rate
\* limit.
StartStep(c) ==
    /\ last'.op = "typing"
    /\ last'.conn = c
    /\ last'.key # NotAStart
    /\ Frame(c, TRUE, "typing", Undef, NoIdent, NoContent, TRUE)

\* The route connection c is registered and listed in its room.
RMember(c) ==
    /\ c \in DOMAIN connections
    /\ connections[c].roomId \in DOMAIN roomConnections
    /\ c \in roomConnections[connections[c].roomId]

\* The step is the handling of a `typing` frame of c within the rate limit.
TypingStep(c, typing) ==
    /\ last'.op = "typing"
    /\ last'.conn = c
    /\ Frame(c, TRUE, "typing", Undef, NoIdent, NoContent, typing)
\* The step broadcasts a typing event of member c, and the send to the
\* registered member m of the same room cannot be made: the socket of m is
\* not open, or its send throws.
FailedSendStep(c, m) ==
    /\ last'.op \in {"typing", "faulty"}
    /\ last'.conn = c
    /\ Member(c)
    /\ m \in rooms[clients[c].roomId].clients \ {c}
    /\ m \in DOMAIN clients
    /\ \E typing \in BOOLEAN :
           \/ ws[m] # "OPEN" /\ TypingStep(c, typing)
           \/ last'.op = "faulty" /\ FaultyFrame(c, m, typing)

\* The entries of a list of times that lie within the limiter's window
\* ending at t.
InWindow(times, t) ==
    {i \in DOMAIN times : times[i] <= t /\ t - times[i] < RateWindowMs}

\* The pings of c the limiter has on record within its window.
RecentPings(c) ==
    Cardinality({i \in DOMAIN attempts[RateKey(c, "ping")] :
                     now - attempts[RateKey(c, "ping")][i] < RateWindowMs})
\* After the step c is marked alive as of now and holds one pong, and nobody
\* else was written to.
PingAnswered(c) ==
    /\ clients'[c].isAlive
    /\ clients'[c].lastPing = now
    /\ out'[c] = << Ev("pong", Undef, Undef, Undef, NoContent, FALSE, EmptyMap) >>
    /\ \A d \in Conn \ {c} : out'[d] = <<>>

\* The step handles a join_room frame of c, within the rate limit, that
\* carries the room and the identity c has afterwards.
JoinedStep(c) ==
    /\ last'.op = "join_room"
    /\ last'.conn = c
    /\ c \in DOMAIN clients
    /\ clients'[c].roomId \in RoomIds
    /\ <<clients'[c].userId, clients'[c].username>> \in Identities
    /\ JoinStep(c, clients'[c].roomId,
                <<clients'[c].userId, clients'[c].username>>)
\* The step relays a message of the member c to its room.
RelayStep(c) ==
    /\ last'.op = "message"
    /\ last'.conn = c
    /\ Member(c)
    /\ \E content \in Contents : StrLen(content) # 0 /\ ChatStep(c, content)
\* In the step somebody leaves room r, nobody joins it, and the room stays.
SurvivedLeave(r) ==
    /\ r \in DOMAIN rooms
    /\ r \in DOMAIN rooms'
    /\ rooms'[r].clients # rooms[r].clients
    /\ rooms'[r].clients \subseteq rooms[r].clients

\* C1: a valid `message` frame, within the rate limit, from a member of a
\* room is written exactly once to every member of that room that is
\* registered with an open socket, the sender included, and to nobody else;
\* this holds in every state that joins, leaves, disconnects and sweeps lead
\* to.
C1_BroadcastToAllMembers ==
    [][last'.op = "message" =>
          \A content \in Contents :
              LET c == last'.conn
              IN  (Member(c) /\ SpecValid(content) /\ ChatStep(c, content)) =>
                      \A m \in Conn :
                          out'[m] = IF /\ m \in rooms[clients[c].roomId].clients
                                       /\ Writable(m)
                                    THEN <<MessageEv(c, content)>>
                                    ELSE <<>>]_vars

\* A message has just been relayed to its sender and to two more members.
C1_Witness ==
    /\ last.op = "message"
    /\ CountType(out[last.conn], "message") = 1
    /\ Cardinality({m \in Conn : CountType(out[m], "message") = 1}) >= 3

\* C2: a `typing` frame, true or false, from a connection of a room is sent
\* once to every other connection of the room and never to the sending
\* connection.
C2_TypingExcludesSender ==
    [][last'.op = "typing" =>
          \A isTyping \in BOOLEAN :
              LET c == last'.conn
              IN  RTypingStep(c, isTyping) =>
                      \A m \in RWritable(connections[c].roomId) :
                          TypingCount(out'[m], isTyping) = IF m = c THEN 0 ELSE 1]_vars

\* C3: when a member of room A sends a valid join_room for room B, within
\* the rate limit, the implicit leave comes first: in the state between the
\* leave and the join the connection is in no membership set, afterwards it
\* is in B's and in no other, every remaining member of A that is registered
\* with an open socket is sent exactly one user_left carrying the identity
\* the connection had in A, and in no reachable state is a connection listed
\* in two rooms.
C3_ImplicitLeaveBeforeJoin ==
    /\ [](\A c \in Conn : Cardinality(RoomsOf(rooms, c)) <= 1)
    /\ [][(last'.op = "join_room" /\ Member(last'.conn)) =>
            LET c == last'.conn
                A == clients[c].roomId
                room == clients'[c].roomId
                ident == <<clients'[c].userId, clients'[c].username>>
            IN  (room \in RoomIds /\ ident \in Identities /\ JoinStep(c, room, ident)) =>
                    /\ RoomsOf(JoinLeft(Sv, c).rooms, c) = {}
                    /\ RoomsOf(rooms', c) = {room}
                    /\ \A m \in rooms[A].clients \ {c} :
                           Writable(m) =>
                               OfType(out'[m], "user_left") = <<UserLeftEv(c)>>]_vars

\* A member of one room has just moved to another room, and a member that
\* stayed behind was told so.
C3_Witness ==
    /\ last.op = "join_room"
    /\ Member(last.conn)
    /\ \E m \in Conn \ {last.conn} :
           /\ Member(m)
           /\ clients[m].roomId # clients[last.conn].roomId
           /\ Len(OfType(out[m], "user_left")) = 1

C5_AutoStopOnce ==
    /\ [](/\ timers = {userTyping[k].timeout : k \in DOMAIN userTyping}
          /\ \A k \in DOMAIN userTyping : KeyOf(userTyping[k].timeout) = k)
    /\ [][/\ last'.op = "timer" =>
                LET k == last'.key
                    h == userTyping[k].timeout
                IN  /\ k \notin DOMAIN userTyping'
                    /\ \A g \in timers' : KeyOf(g) # k
                    /\ \A m \in Conn :
                           out'[m] = IF m \in RWritable(h.room)
                                     THEN <<TypingEv(h.room, h.user, h.name, FALSE)>>
                                     ELSE <<>>
          /\ last'.op = "typing" =>
                LET c == last'.conn
                IN  RTypingStep(c, FALSE) =>
                        LET k == TypingKey(connections[c].roomId, connections[c].userId)
                        IN  /\ k \notin DOMAIN userTyping'
                            /\ \A g \in timers' : KeyOf(g) # k]_vars

\* An auto-stop has just fired and its typing:false reached a connection.
C5_Witness ==
    /\ last.op = "timer"
    /\ last.key \notin DOMAIN userTyping
    /\ \A g \in timers : KeyOf(g) # last.key
    /\ \E m \in Conn : TypingCount(out[m], FALSE) = 1

\* C6: when the heartbeat sweep evicts a connection that is in a room (its
\* roomId is set), every other registered connection in that room that
\* survives the sweep with an open socket is sent user_left for it.
C6_EvictionAnnounced ==
    [][last'.op = "heartbeat" =>
          \A c \in DOMAIN clients \ DOMAIN clients' :
              clients[c].roomId # Undef =>
                  \A m \in DOMAIN clients' :
                      (clients[m].roomId = clients[c].roomId /\ ws[m] = "OPEN") =>
                          UserLeftEv(c) \in Range(out'[m])]_vars

\* C7: the cleanup sweep leaves in the directory every room of which a
\* member is still registered after the sweep, however long the room has
\* been idle.
C7_SweepSparesOccupiedRooms ==
    [][last'.op = "cleanup" =>
          \A r \in DOMAIN rooms :
              (\E m \in rooms[r].clients : m \in DOMAIN clients') =>
                  r \in DOMAIN rooms']_vars

\* C8: a `message` frame from a member of a room is relayed to the room when
\* its content has at most 1000 characters, and when it has 1001 or more the
\* sender is sent an `error` and nobody is sent a `message`.
C8_LengthLimit ==
    [][last'.op = "message" =>
          \A content \in Contents :
              LET c == last'.conn
              IN  (Member(c) /\ StrLen(Trim(content)) > 0 /\ ChatStep(c, content)) =>
                      IF StrLen(content) <= MaxMessageLength
                      THEN \A m \in rooms[clients[c].roomId].clients :
                               Writable(m) => CountType(out'[m], "message") = 1
                      ELSE /\ CountType(out'[c], "error") = 1
                           /\ \A m \in Conn : CountType(out'[m], "message") = 0]_vars

\* C9: a `message` frame from a member of a room whose content is empty or
\* only whitespace is answered with an `error` to the sender, and nobody is
\* sent a `message`.
C9_BlankRejected ==
    [][last'.op = "message" =>
          \A content \in Contents :
              LET c == last'.conn
              IN  (Member(c) /\ StrLen(Trim(content)) = 0 /\ ChatStep(c, content)) =>
                      /\ CountType(out'[c], "error") = 1
                      /\ \A m \in Conn : CountType(out'[m], "message") = 0]_vars

C11_UnparsableAnswered ==
    [][last'.op = "unparsable" =>
          LET c == last'.conn
          IN  /\ Len(out'[c]) = 1
              /\ out'[c][1].type = "error"
              /\ \A d \in Conn \ {c} : out'[d] = <<>>
              /\ clients' = clients
              /\ rooms' = rooms
              /\ connections' = connections
              /\ roomConnections' = roomConnections
              /\ ws'[c] = "OPEN"]_vars

\* C12: when the close or the error of a connection that is listed in room R
\* has been handled, the connection is in no registry and in no room's
\* membership set, and every other connection of R that can be written to
\* has been sent exactly one user_left with the departed connection's
\* userId and username.
C12_CloseCascade ==
    [][last'.op \in {"close", "error"} =>
          LET c == last'.conn
          IN  /\ Member(c) =>
                    /\ c \notin DOMAIN clients'
                    /\ RoomsOf(rooms', c) = {}
                    /\ \A m \in rooms[clients[c].roomId].clients \ {c} :
                           Writable(m) =>
                               OfType(out'[m], "user_left") = <<UserLeftEv(c)>>
              /\ RMember(c) =>
                    /\ c \notin DOMAIN connections'
                    /\ \A r \in DOMAIN roomConnections' :
                           c \notin roomConnections'[r]
                    /\ \A m \in RWritable(connections[c].roomId) \ {c} :
                           LET left == OfType(out'[m], "user_left")
                           IN  /\ Len(left) = 1
                               /\ left[1].user = connections[c].userId
                               /\ left[1].name = connections[c].username]_vars

\* C13: while an event is broadcast to a room, a recipient whose socket is
\* not open, or whose send throws, does not keep the event from any other
\* member of the room whose socket is open: each of them is written the
\* event.
C13_FanOutSurvivesFailure ==
    [][last'.op = "faulty" =>
          LET c == last'.conn
          IN  \A b \in Conn, typing \in BOOLEAN :
                  /\ (Member(c) /\ FaultyFrame(c, b, typing)) =>
                         \A m \in rooms[clients[c].roomId].clients \ {c, b} :
                             Writable(m) => TypingCount(out'[m], typing) = 1
                  /\ (RMember(c) /\ RFaultyFrame(c, b, typing)) =>
                         \A m \in RWritable(connections[c].roomId) \ {b} :
                             TypingCount(out'[m], typing) = 1]_vars

C15_JoinContract ==
    [][(last'.op = "join_room" /\ last'.conn \in DOMAIN clients) =>
          LET c == last'.conn
          IN  \A room \in RoomIds, ident \in Identities :
                  JoinStep(c, room, ident) =>
                      /\ clients'[c].userId = ident[1]
                      /\ clients'[c].username = ident[2]
                      /\ clients'[c].roomId = room
                      /\ room \in DOMAIN rooms'
                      /\ c \in rooms'[room].clients
                      /\ OfType(out'[c], "room_joined") =
                             << Ev("room_joined", room, Undef, Undef, NoContent,
                                   FALSE,
                                   [m \in rooms'[room].clients |->
                                       <<clients'[m].userId,
                                         clients'[m].username>>]) >>
                      /\ OfType(out'[c], "user_joined") = <<>>
                      /\ \A m \in Conn \ {c} :
                             OfType(out'[m], "user_joined") =
                                 IF m \in rooms'[room].clients /\ Writable(m)
                                 THEN << Ev("user_joined", room, ident[1],
                                            ident[2], NoContent, FALSE,
                                            EmptyMap) >>
                                 ELSE <<>>]_vars

\* A connection has just joined a room that two others were in: it got the
\* list of all three, and both were told.
C15_Witness ==
    /\ last.op = "join_room"
    /\ Member(last.conn)
    /\ LET c == last.conn
           joined == OfType(out[c], "room_joined")
       IN  /\ Len(joined) = 1
           /\ DOMAIN joined[1].parts = Conn
           /\ rooms[clients[c].roomId].clients = Conn
           /\ \A m \in Conn \ {c} : Len(OfType(out[m], "user_joined")) = 1

\* C16 (as stated): every ping frame of a registered connection marks the
\* connection alive and is answered with exactly one pong, to that
\* connection only, however many pings came before.
C16_EveryPingAnswered ==
    [][(last'.op = "ping" /\ last'.conn \in DOMAIN clients) =>
          PingAnswered(last'.conn)]_vars

\* C16 (amended): a ping frame of a registered connection is answered with
\* exactly one pong and marks the connection alive if the limiter has fewer
\* than ten pings of that connection on record within the last minute;
\* otherwise it is answered with exactly one `Rate limit exceeded` error,
\* no pong, and the connection's liveness is left as it was.
C16_AdmittedPingAnswered ==
    [][(last'.op = "ping" /\ last'.conn \in DOMAIN clients) =>
          LET c == last'.conn
          IN  IF RecentPings(c) < RateMaxAttempts
              THEN PingAnswered(c)
              ELSE /\ out'[c] = << Ev("error", Undef, Undef,
                                      "Rate limit exceeded", NoContent, FALSE,
                                      EmptyMap) >>
                   /\ \A d \in Conn \ {c} : out'[d] = <<>>
                   /\ clients' = clients]_vars

\* The eleventh ping within a minute has just been refused while the
\* heartbeat was waiting for a sign of life.
C16_Witness ==
    /\ last.op = "ping"
    /\ last.conn \in DOMAIN clients
    /\ RecentPings(last.conn) = RateMaxAttempts
    /\ OfType(out[last.conn], "error") # <<>>
    /\ ~clients[last.conn].isAlive

\* C17: the message events caused by one connection's frames are written to
\* each recipient in the order in which the frames arrived: in no socket's
\* output does a later frame of a sender come before an earlier frame of
\* the same sender.
C17_PerSenderOrder ==
    \A m \in Conn :
        \A i, j \in DOMAIN delivered[m] :
            (i < j /\ delivered[m][i].from = delivered[m][j].from) =>
                delivered[m][i].n < delivered[m][j].n

\* A member has been written two messages of another member, with a message
\* of its own between them, while a third frame of the other is waiting.
C17_Witness ==
    \E m, s \in Conn :
        /\ m # s
        /\ Len(delivered[m]) >= 3
        /\ delivered[m][1].from = s
        /\ delivered[m][2].from = m
        /\ delivered[m][3].from = s
        /\ inbound[s] # <<>>

\* C18: in every reachable state a connection is in the membership set of
\* at most one room, and a connection in the membership set of room R is
\* registered with R as its current room id.
C18_MembershipMatchesRoomId ==
    \A c \in Conn :
        /\ Cardinality(RoomsOf(rooms, c)) <= 1
        /\ \A r \in RoomsOf(rooms, c) :
               /\ c \in DOMAIN clients
               /\ clients[c].roomId = r

\* A connection has moved from one room, which still has a member, to
\* another, and is listed in the new room only.
C18_Witness ==
    /\ last.op = "join_room"
    /\ Member(last.conn)
    /\ Cardinality(DOMAIN rooms) = 2
    /\ RoomsOf(rooms, last.conn) = {clients[last.conn].roomId}
    /\ \E m \in Conn \ {last.conn} :
           /\ Member(m)
           /\ clients[m].roomId # clients[last.conn].roomId
           /\ OfType(out[m], "user_left") # <<>>

\* C19: in every reachable state a (room, user) key has at most one pending
\* auto-stop timer, and every pending timer is the one its key's typing
\* entry records, so a timer that was replaced or cancelled is not pending
\* and cannot fire; after a typing start exactly one timer of the key is
\* pending, the new one; and the timer that fires is the recorded one.
C19_OneTimerPerKey ==
    /\ [](\A g, h \in timers : KeyOf(g) = KeyOf(h) => g = h)
    /\ [](\A h \in timers :
              /\ KeyOf(h) \in DOMAIN userTyping
              /\ userTyping[KeyOf(h)].timeout = h)
    /\ [][/\ (last'.op = "typing" /\ last'.key # NotAStart) =>
                LET c == last'.conn
                    k == TypingKey(connections[c].roomId, connections[c].userId)
                IN  /\ k \in DOMAIN userTyping'
                    /\ {g \in timers' : KeyOf(g) = k} = {userTyping'[k].timeout}
          /\ last'.op = "timer" =>
                LET k == last'.key
                IN  /\ k \in DOMAIN userTyping
                    /\ userTyping[k].timeout \in timers
                    /\ timers' = timers \ {userTyping[k].timeout}]_vars

\* A typing start has just replaced the timer of a key that already had
\* one, while another key has a timer of its own.
C19_Witness ==
    /\ last.op = "typing"
    /\ last.key = RepeatedStart
    /\ Cardinality(timers) = 2
    /\ Cardinality(DOMAIN userTyping) = 2

\* C20: eviction is idempotent.  From every reachable state, handling the
\* disconnect of a connection twice gives the state and the output that
\* handling it once gives; one run leaves the connection unregistered and
\* in no room; and a close or error event for a connection that the error
\* handler, the heartbeat or the sweep had already evicted changes neither
\* the registry nor the room directory and writes nothing to anybody.
C20_EvictionIdempotent ==
    /\ [](\A c \in Conn :
              HandleDisconnect(HandleDisconnect(Sv, c), c) = HandleDisconnect(Sv, c))
    /\ [][last'.op \in {"close", "error"} =>
              LET c == last'.conn
              IN  /\ c \notin DOMAIN clients'
                  /\ RoomsOf(rooms', c) = {}
                  /\ c \notin DOMAIN clients =>
                         /\ clients' = clients
                         /\ rooms' = rooms
                         /\ out' = NoOut]_vars

\* The close event of a connection that had been evicted before has just
\* been handled, while a room still has a member that could be written to.
C20_Witness ==
    /\ last.op = "close"
    /\ last.key = RepeatedRun
    /\ out = NoOut
    /\ \E m \in Conn \ {last.conn} : Member(m) /\ Writable(m)

\* C21: a connection that a periodic sweep (heartbeat or cleanup) removes
\* from the registry has its transport closed by that sweep: after the
\* sweep its socket is not open.
C21_SweepClosesTransport ==
    [][last'.op \in {"heartbeat", "cleanup"} =>
          \A c \in DOMAIN clients \ DOMAIN clients' : ws'[c] # "OPEN"]_vars

\* C22 (as stated): a sweep evicts a connection only if the time since its
\* last recorded ping or pong exceeds 60 seconds.
C22_EvictedOnlyAfterThreshold ==
    [][last'.op = "beat" =>
          \A c \in DOMAIN clients \ DOMAIN clients' :
              now' - clients[c].lastPing > ClientTimeoutMs]_vars

\* C22 (amended): with the timers on schedule, a sweep evicts exactly the
\* connections whose liveness flag is clear, that is those for which no
\* ping frame and no pong was recorded since the previous heartbeat sweep;
\* the last recorded ping or pong of an evicted connection is at least one
\* heartbeat interval (30 s) old, and a connection that is not evicted has
\* one that is less than 60 s old.
C22_EvictedWhenFlagClear ==
    [][last'.op = "beat" =>
          \A c \in DOMAIN clients :
              /\ c \notin DOMAIN clients' <=> ~clients[c].isAlive
              /\ c \notin DOMAIN clients' =>
                     now' - clients[c].lastPing >= HeartbeatIntervalMs
              /\ c \in DOMAIN clients' =>
                     now' - clients[c].lastPing < ClientTimeoutMs]_vars

\* A sweep has just terminated and evicted a connection while another,
\* accepted within the last minute, stays registered.
C22_Witness ==
    /\ last.op = "beat"
    /\ now = 2 * HeartbeatIntervalMs
    /\ \E c \in Conn : ws[c] = "CLOSING" /\ c \notin DOMAIN clients
    /\ \E m \in DOMAIN clients :
           ~clients[m].isAlive /\ clients[m].lastPing > HeartbeatIntervalMs

\* C23 (as stated): a room's lastActivity is set to the current time by
\* every join, by every relayed chat message and by every leave that the
\* room survives.
C23_LeaveAdvancesActivity ==
    [][LET c == last'.conn
       IN  /\ (last'.op = "join_room" /\ JoinedStep(c)) =>
                  rooms'[clients'[c].roomId].lastActivity = now
           /\ (last'.op = "message" /\ RelayStep(c)) =>
                  rooms'[clients[c].roomId].lastActivity = now
           /\ \A r \in RoomIds :
                  SurvivedLeave(r) => rooms'[r].lastActivity = now]_vars

\* C23 (amended): a room's lastActivity is set to the current time by every
\* join and by every relayed chat message; a leave that the room survives
\* leaves it as it was.
C23_JoinAndMessageAdvanceActivity ==
    [][LET c == last'.conn
       IN  /\ (last'.op = "join_room" /\ JoinedStep(c)) =>
                  rooms'[clients'[c].roomId].lastActivity = now
           /\ (last'.op = "message" /\ RelayStep(c)) =>
                  rooms'[clients[c].roomId].lastActivity = now
           /\ \A r \in RoomIds :
                  SurvivedLeave(r) =>
                      rooms'[r].lastActivity = rooms[r].lastActivity]_vars

\* A member has just left, by closing, a room that stays and whose last
\* activity is older than the current time.
C23_Witness ==
    /\ last.op = "close"
    /\ last.key # RepeatedRun
    /\ \E m \in Conn \ {last.conn} :
           /\ Member(m)
           /\ OfType(out[m], "user_left") # <<>>
           /\ rooms[clients[m].roomId].lastActivity < now

\* C24: after every handler and every sweep of the standalone server, each
\* room in the directory has at least one member, and that member is a
\* registered connection: a room whose last member leaves or disconnects is
\* gone after that same step.
C24_NoEmptyRoom ==
    \A r \in DOMAIN rooms :
        \E m \in rooms[r].clients : m \in DOMAIN clients

\* The last member of a room has just closed and the room is gone, while
\* another room, with its member, is still there.
C24_Witness ==
    /\ last.op = "close"
    /\ last.key[1] = "left"
    /\ last.key[2] \notin DOMAIN rooms
    /\ DOMAIN rooms # {}

\* C25: when the close of a registered connection has been handled, its
\* (room, user) key has no typing entry and no pending auto-stop timer, and
\* the close itself writes no typing event; in every state each typing
\* entry belongs to the key of a connection that is still registered, so no
\* automatic typing:false can fire for a connection that is gone.
C25_CloseClearsTyping ==
    /\ [](\A k \in DOMAIN userTyping :
              \E c \in DOMAIN connections :
                  k = TypingKey(connections[c].roomId, connections[c].userId))
    /\ [][(last'.op = "close" /\ last'.conn \in DOMAIN connections) =>
              LET c == last'.conn
                  k == TypingKey(connections[c].roomId, connections[c].userId)
              IN  /\ k \notin DOMAIN userTyping'
                  /\ \A g \in timers' : KeyOf(g) # k
                  /\ \A m \in Conn : OfType(out'[m], "typing") = <<>>]_vars

\* A connection has just closed while its typing indicator was pending: the
\* indicator and its timer are gone though no stop was sent.
C25_Witness ==
    /\ last.op = "close"
    /\ last.key = TypingPending
    /\ timers = {}
    /\ userTyping = EmptyMap
    /\ connections # EmptyMap

\* C26: in every reachable state a registered connection whose current room
\* id is R has R in the directory, and R's membership set contains it.
C26_RoomIdMatchesMembership ==
    \A c \in DOMAIN clients :
        clients[c].roomId # Undef =>
            /\ clients[c].roomId \in DOMAIN rooms
            /\ c \in rooms[clients[c].roomId].clients

\* C27: a `message`, `typing` or `user_left` event is written into room R
\* only in a step made on behalf of a connection that was in R's membership
\* set when the step began: the sender of the frame, the connection that
\* closed, or a connection the sweep evicted.
C27_OnlyMembersReachRoom ==
    [][\A m \in Conn :
          \A i \in DOMAIN out'[m] :
              LET e == out'[m][i]
              IN  e.type \in {"message", "typing", "user_left"} =>
                      /\ e.room \in DOMAIN rooms
                      /\ IF last'.conn # NoConn
                         THEN last'.conn \in rooms[e.room].clients
                         ELSE \E c \in DOMAIN clients \ DOMAIN clients' :
                                  /\ c \in rooms[e.room].clients
                                  /\ e.user = clients[c].userId]_vars

\* C28: of the frames of one connection and one type, at most ten reach a
\* handler within any window of 60 seconds; a frame of a registered
\* connection that finds ten already within the window is answered with one
\* `Rate limit exceeded` error to its sender only, is not recorded by the
\* limiter, changes neither the registry nor the directory and is not
\* counted as handled.
C28_TenPerWindow ==
    /\ [](\A k \in DOMAIN dispatched :
              \A i \in DOMAIN dispatched[k] :
                  Cardinality(InWindow(dispatched[k], dispatched[k][i]))
                      <= RateMaxAttempts)
    /\ [][\A type \in FrameTypes :
              LET c == last'.conn
                  k == RateKey(c, type)
              IN  (/\ last'.op = type
                   /\ c \in DOMAIN clients
                   /\ Cardinality(InWindow(dispatched[k], now)) >= RateMaxAttempts) =>
                      /\ out'[c] = << Ev("error", Undef, Undef,
                                         "Rate limit exceeded", NoContent, FALSE,
                                         EmptyMap) >>
                      /\ \A d \in Conn \ {c} : out'[d] = <<>>
                      /\ attempts' = attempts
                      /\ dispatched' = dispatched
                      /\ clients' = clients
                      /\ rooms' = rooms]_vars

\* A member's message has just been refused after the window slid: more than
\* ten of its messages were relayed in all, ten of them within the last
\* minute, while its pings, fewer than ten, are still admitted.
C28_Witness ==
    /\ last.op = "message"
    /\ Member(last.conn)
    /\ OfType(out[last.conn], "error") # <<>>
    /\ now = RateWindowMs
    /\ Len(dispatched[RateKey(last.conn, "message")]) > RateMaxAttempts
    /\ Cardinality(InWindow(dispatched[RateKey(last.conn, "message")], now))
           = RateMaxAttempts
    /\ dispatched[RateKey(last.conn, "ping")] # <<>>
    /\ Len(dispatched[RateKey(last.conn, "ping")]) < RateMaxAttempts
    /\ \E m \in Conn \ {last.conn} : Member(m)

\* C29: from a call of disconnect() until the next call of connect() by the
\* application, no reconnection is started: the timer disconnect() found in
\* reconnectTimer is no longer pending, no reconnect timer is set (by the
\* close event of the closed socket or otherwise), and no socket is
\* created.
C29_NoReconnectAfterDisconnect ==
    [][/\ last'.op = "disconnect" =>
              \A tm \in timeouts' : tm.id # client.reconnectTimer
       /\ (halted /\ halted') =>
              /\ {tm \in timeouts' : tm.kind = "reconnect"} \subseteq timeouts
              /\ \A s \in Sock : sockets[s].readyState = "NONE" =>
                                     sockets'[s].readyState = "NONE"]_vars

\* C30: the callback of the connection timeout set by one call of connect()
\* changes no socket but the one that call created.
C30_TimeoutClosesOwnSocket ==
    [][last'.op = "timeout" =>
          \A s \in Sock : sockets'[s] # sockets[s] => s = last'.conn]_vars
====
